---- MODULE Spec2Model ----
(***************************************************************************)
(* A model of jsque: the lexer (jsque/lexer.py), the query AST and its     *)
(* dict isomorphism (jsque/ast.py), the parser (jsque/parser.py), the      *)
(* formatter (jsque/format.py) and the evaluation pipeline                 *)
(* (jsque/pipeline.py).                                                    *)
(*                                                                         *)
(* A Python str is a sequence of one-character strings, so that scanning,  *)
(* str(int) and int(str) are computed character by character.  A Python    *)
(* value (None, int, bool, str, list, dict) is a record [k, v]: k names    *)
(* the type and v holds the payload.  Python indices are 0-based: the      *)
(* character source[idx] of the code is source[idx + 1] here.              *)
(***************************************************************************)
EXTENDS Integers, Sequences, FiniteSets, TLC

VARIABLES
    done,       \* the operations the running scenario has completed
    query,      \* the AST a scenario holds (ast.QueryTerm)
    source,     \* a query string
    tokens,     \* a token list handed to the parser
    parsed,     \* outcome of parse_jsque_expression
    formatted,  \* outcome of format_jsque_expression
    tree,       \* outcome of QueryTerm.dict
    rebuilt,    \* outcome of QueryTerm.fromdict
    self_components, \* Pipeline.components of the compiled pipeline
    subject,    \* the value the caller evaluates the pipeline on
    arg,        \* the argument of the running (or last) Pipeline.eval call
    stack,      \* the active Pipeline.eval calls, outermost first
    result,     \* outcome of the last completed top-level Pipeline.eval
    first,      \* outcome of the first completed top-level Pipeline.eval
    calls,      \* number of completed top-level calls
    limit,      \* number of calls the caller makes
    applied,    \* the last step applied: its component, input and outcome
    strayed,    \* an evaluation on another value than subject was made
    scan_idx,   \* tokenize: the local idx, the position of the scan
    scanned,    \* tokenize: the local list tokens built so far
    plain,      \* outcome of tokenize before whitespace was inserted
    inserted,   \* number of whitespace characters inserted into source
    compiled    \* outcome of to_pipeline

frontVars == <<done, query, source, tokens, parsed, formatted, tree, rebuilt>>
evalVars ==
    <<self_components, subject, arg, stack, result, first, calls, limit,
      applied, strayed>>
lexVars == <<scan_idx, scanned, plain, inserted>>
otherVars == <<lexVars, compiled>>
vars == <<frontVars, evalVars, otherVars>>

-----------------------------------------------------------------------------
(* Python values *)

PyNone == [k |-> "null", v |-> 0]
PyInt(n) == [k |-> "num", v |-> n]
PyBool(b) == [k |-> "bool", v |-> b]
PyStr(s) == [k |-> "str", v |-> s]
PyList(items) == [k |-> "list", v |-> items]
\* a dict keeps its insertion order: a sequence of <<key, value>> pairs
PyDict(pairs) == [k |-> "map", v |-> pairs]
\* any other object (here: an AST node held where a scalar is expected)
PyObj(o) == [k |-> "obj", v |-> o]

\* bool(x) of a Python value: None, 0, False, "", [] and {} are falsy
Truthy(x) ==
    CASE x.k = "null" -> FALSE
      [] x.k = "num" -> x.v # 0
      [] x.k = "bool" -> x.v
      [] x.k \in {"str", "list", "map"} -> Len(x.v) > 0
      [] OTHER -> TRUE

-----------------------------------------------------------------------------
(* Characters: string.whitespace, string.ascii_letters, string.digits *)

\* string.whitespace is ' \t\n\r\x0b\x0c'; \x0b has no TLA+ escape and is not
\* part of any string of the model
Whitespace == {" ", "\t", "\n", "\r", "\f"}

AsciiLetters ==
    {"a", "b", "c", "d", "e", "f", "g", "h", "i", "j", "k", "l", "m",
     "n", "o", "p", "q", "r", "s", "t", "u", "v", "w", "x", "y", "z",
     "A", "B", "C", "D", "E", "F", "G", "H", "I", "J", "K", "L", "M",
     "N", "O", "P", "Q", "R", "S", "T", "U", "V", "W", "X", "Y", "Z"}

Digits == {"0", "1", "2", "3", "4", "5", "6", "7", "8", "9"}

DigitChars == <<"0", "1", "2", "3", "4", "5", "6", "7", "8", "9">>

DigitVal(c) == (CHOOSE i \in 1..10 : DigitChars[i] = c) - 1

\* str(n) for n >= 0: the decimal digits, most significant first
RECURSIVE StrOfNat(_)
StrOfNat(n) ==
    IF n < 10 THEN <<DigitChars[n + 1]>>
    ELSE StrOfNat(n \div 10) \o <<DigitChars[(n % 10) + 1]>>

\* str(n) that loses the sign
StrOfIntUnsigned(n) == IF n < 0 THEN StrOfNat(-n) ELSE StrOfNat(n)

\* str(n) of a Python int
StrOfInt(n) == IF n < 0 THEN <<"-">> \o StrOfNat(-n) ELSE StrOfNat(n)

\* the value of a run of decimal digits, folded left to right
RECURSIVE NatOfDigits(_, _)
NatOfDigits(s, acc) ==
    IF s = <<>> THEN acc
    ELSE NatOfDigits(Tail(s), acc * 10 + DigitVal(Head(s)))

\* int(s) that reads the digits and ignores a leading sign
IntOfStrAbs(s) ==
    LET body == IF s # <<>> /\ Head(s) = "-" THEN Tail(s) ELSE s
    IN  IF body # <<>> /\ \A i \in 1..Len(body) : body[i] \in Digits
        THEN [ok |-> TRUE, n |-> NatOfDigits(body, 0)]
        ELSE [ok |-> FALSE, n |-> 0]

\* int(s) of a text made of digits and '-' (the only characters an Index
\* token holds): an optional sign and one or more digits, else ValueError
IntOfStr(s) ==
    LET body == IF s # <<>> /\ Head(s) = "-" THEN Tail(s) ELSE s
    IN  IF body # <<>> /\ \A i \in 1..Len(body) : body[i] \in Digits
        THEN [ok |-> TRUE, n |-> IF body = s THEN NatOfDigits(body, 0)
                                 ELSE 0 - NatOfDigits(body, 0)]
        ELSE [ok |-> FALSE, n |-> 0]

-----------------------------------------------------------------------------
(* jsque/lexer.py *)

Token(type, value) == [type |-> type, value |-> value]
TokenRoot == Token("root", <<"@">>)
TokenIdentifier(v) == Token("identifier", v)
TokenSubOp == Token("sub_op", <<".">>)
TokenWildcard == Token("wild", <<"*">>)
TokenLeftBracket == Token("lbrac", <<"[">>)
TokenRightBracket == Token("rbrac", <<"]">>)
TokenIndex(v) == Token("index", v)

\* terminators without the whitespace characters
IDENTIFIER_TERMINATORS_NO_SPACE == {".", "["}

\* terminators that also end an identifier at a closing bracket
IDENTIFIER_TERMINATORS_CLOSING == {".", "[", "]"} \cup Whitespace

IDENTIFIER_TERMINATORS == {".", "["} \cup Whitespace

\* the loop of next_identifier from position idx with ident consumed so far
RECURSIVE next_identifier_loop(_, _, _)
next_identifier_loop(src, idx, ident) ==
    IF idx < Len(src)
    THEN IF src[idx + 1] \in IDENTIFIER_TERMINATORS THEN ident
         ELSE next_identifier_loop(src, idx + 1, ident \o <<src[idx + 1]>>)
    ELSE ident

\* next_identifier that leaves out the character it is called at
next_identifier_after_first(src, start_idx) ==
    next_identifier_loop(src, start_idx + 1, <<>>)

next_identifier(src, start_idx) == next_identifier_loop(src, start_idx, <<>>)

RECURSIVE next_index_loop(_, _, _)
next_index_loop(src, idx, num) ==
    IF idx < Len(src) /\ src[idx + 1] \in Digits \cup {"-"}
    THEN next_index_loop(src, idx + 1, num \o <<src[idx + 1]>>)
    ELSE num

next_index(src, start_idx) == next_index_loop(src, start_idx, <<>>)

\* One iteration of tokenize's while loop at position idx < len(source):
\* the new position, the tokens appended, or the LexerException raised.
ScanStep(src, idx) ==
    LET char_i == src[idx + 1]
        one(tok) == [ok |-> TRUE, idx |-> idx + 1, emit |-> <<tok>>]
    IN  CASE char_i \in Whitespace ->
                [ok |-> TRUE, idx |-> idx + 1, emit |-> <<>>]
          [] char_i = "@" -> one(TokenRoot)
          [] char_i \in AsciiLetters \cup {"_"} ->
                LET id_name == next_identifier(src, idx)
                IN  [ok |-> TRUE, idx |-> idx + Len(id_name),
                     emit |-> <<TokenIdentifier(id_name)>>]
          [] char_i = "." -> one(TokenSubOp)
          [] char_i = "[" -> one(TokenLeftBracket)
          [] char_i = "]" -> one(TokenRightBracket)
          [] char_i = "*" -> one(TokenWildcard)
          [] char_i \in Digits \cup {"-"} ->
                LET index == next_index(src, idx)
                IN  [ok |-> TRUE, idx |-> idx + Len(index),
                     emit |-> <<TokenIndex(index)>>]
          [] OTHER -> [ok |-> FALSE, idx |-> idx, emit |-> <<>>]

RECURSIVE tokenize_loop(_, _, _)
tokenize_loop(src, idx, toks) ==
    IF idx < Len(src)
    THEN LET s == ScanStep(src, idx)
         IN  IF s.ok THEN tokenize_loop(src, s.idx, toks \o s.emit)
             ELSE [ok |-> FALSE, err |-> "LexerException", tokens |-> <<>>]
    ELSE [ok |-> TRUE, err |-> "", tokens |-> toks]

tokenize(src) == tokenize_loop(src, 0, <<>>)

-----------------------------------------------------------------------------
(* jsque/ast.py: the query terms *)

\* QueryTerm.__init__: a term is its type, its value and its children
QueryTerm(type, value, children) ==
    [type |-> type, value |-> value, children |-> children]

\* stands where no term was built (the call raised)
NoTerm == QueryTerm("", PyNone, <<>>)

Root == QueryTerm("root", PyNone, <<>>)
\* Index.number and Identifier.key are the term's value
Index(number) == QueryTerm("index", number, <<>>)
Identifier(key) == QueryTerm("identifier", key, <<>>)

Built(term) == [ok |-> TRUE, err |-> "", expr |-> term]
Raised(err) == [ok |-> FALSE, err |-> err, expr |-> NoTerm]

\* IndexExpr.__init__ that stores the item before the sequence
IndexExprItemFirst(sequence, item) ==
    IF item.type # "index" THEN Raised("IndexError")
    ELSE Built(QueryTerm("idx_op", PyNone, <<item, sequence>>))

\* IndexExpr.__init__: the item must be an Index
IndexExpr(sequence, item) ==
    IF item.type # "index" THEN Raised("IndexError")
    ELSE Built(QueryTerm("idx_op", PyNone, <<sequence, item>>))

MemberMapExpr(sequence) == Built(QueryTerm("mmap_op", PyNone, <<sequence>>))

\* SubExpr.__init__: the child must be an Identifier
SubExpr(parent, child) ==
    IF child.type # "identifier" THEN Raised("AttributeError")
    ELSE Built(QueryTerm("sub_op", PyNone, <<parent, child>>))

ChildMapExpr(parent) == Built(QueryTerm("cmap_op", PyNone, <<parent>>))

-----------------------------------------------------------------------------
(* jsque/parser.py *)

\* The while loop of parse_jsque_expression: expr is the accumulator and
\* toks the tokens not yet popped.
RECURSIVE parse_loop(_, _)
parse_loop(expr, toks) ==
    IF toks = <<>> THEN Built(expr)
    ELSE
      LET op_token == Head(toks)
          rest == Tail(toks)
      IN  CASE op_token.type = "lbrac" ->
                 IF ~(Len(rest) >= 2)
                 THEN Raised("Not enough tokens to complete index expression.")
                 ELSE
                   LET inner == rest[1]
                       rbrac == rest[2]
                       after == Tail(Tail(rest))
                       number == IntOfStr(inner.value)
                       wrapped ==
                         CASE inner.type = "index" ->
                                IF number.ok
                                THEN IndexExpr(expr, Index(PyInt(number.n)))
                                ELSE Raised("ValueError")
                           [] inner.type = "wild" -> MemberMapExpr(expr)
                           [] OTHER -> Raised("Bad index argument.")
                   IN  IF ~wrapped.ok THEN wrapped
                       ELSE IF rbrac.type # "rbrac"
                       THEN Raised("AssertionError: Expected right bracket")
                       ELSE parse_loop(wrapped.expr, after)
            [] op_token.type = "sub_op" ->
                 IF ~(Len(rest) >= 1)
                 THEN Raised("Not enough tokens to complete sub expression.")
                 ELSE
                   LET inner == rest[1]
                       after == Tail(rest)
                       wrapped ==
                         CASE inner.type = "identifier" ->
                                SubExpr(expr, Identifier(PyStr(inner.value)))
                           [] inner.type = "wild" -> ChildMapExpr(expr)
                           [] OTHER -> Raised("Bad sub expression argument.")
                   IN  IF ~wrapped.ok THEN wrapped
                       ELSE parse_loop(wrapped.expr, after)
            [] OTHER -> Raised("Unexpected token")

\* parse_tokens without the check that the first token is the root
parse_tokens_any_first(toks) ==
    IF toks = <<>> THEN Raised("No tokens to parse.")
    ELSE parse_loop(Root, Tail(toks))

\* parse_jsque_expression from line 15 on, given the token list
parse_tokens(toks) ==
    IF toks = <<>> THEN Raised("No tokens to parse.")
    ELSE IF toks[1].type # "root"
    THEN Raised("All expressions must start with a root '@'")
    ELSE parse_loop(Root, Tail(toks))

parse_jsque_expression(src) ==
    LET lexed == tokenize(src)
    IN  IF ~lexed.ok THEN Raised(lexed.err) ELSE parse_tokens(lexed.tokens)

-----------------------------------------------------------------------------
(* jsque/format.py *)

Text(s) == [ok |-> TRUE, err |-> "", text |-> s]
NoText(err) == [ok |-> FALSE, err |-> err, text |-> <<>>]

\* str(x) of a leaf's value: a decimal for an int, the text itself for a str
\* (the repr of any other object is outside the model)
StrOfValue(x) ==
    CASE x.k = "num" -> Text(StrOfInt(x.v))
      [] x.k = "str" -> Text(x.v)
      [] OTHER -> NoText("unmodelled repr")

RECURSIVE format_jsque_expression(_)
format_jsque_expression(q) ==
    CASE q.type = "root" -> Text(<<"@">>)
      [] q.type = "index" -> StrOfValue(q.value)
      [] q.type = "idx_op" ->
            LET format_sequence == format_jsque_expression(q.children[1])
                format_item == StrOfValue(q.children[2].value)
            IN  IF ~format_sequence.ok THEN format_sequence
                ELSE IF ~format_item.ok THEN format_item
                ELSE Text(format_sequence.text \o <<"[">> \o format_item.text
                          \o <<"]">>)
      [] q.type = "mmap_op" ->
            LET format_sequence == format_jsque_expression(q.children[1])
            IN  IF ~format_sequence.ok THEN format_sequence
                ELSE Text(format_sequence.text \o <<"[", "*", "]">>)
      [] q.type = "sub_op" ->
            LET format_parent == format_jsque_expression(q.children[1])
                format_child == StrOfValue(q.children[2].value)
            IN  IF ~format_parent.ok THEN format_parent
                ELSE IF ~format_child.ok THEN format_child
                ELSE Text(format_parent.text \o <<".">> \o format_child.text)
      [] q.type = "cmap_op" ->
            LET format_parent == format_jsque_expression(q.children[1])
            IN  IF ~format_parent.ok THEN format_parent
                ELSE Text(format_parent.text \o <<".", "*">>)
      [] q.type = "identifier" -> StrOfValue(q.value)
      [] OTHER -> NoText("FormatException")

-----------------------------------------------------------------------------
(* jsque/ast.py: the dict isomorphism *)

\* The dict of a term: the key "type", and the keys "value" and "children"
\* when present (has_value, has_children).
TermDict(type, has_value, value, has_children, children) ==
    [type |-> type, has_value |-> has_value, value |-> value,
     has_children |-> has_children, children |-> children]

\* QueryTerm.dict
RECURSIVE dict(_)
dict(term) ==
    TermDict(term.type,
             term.value.k # "null",
             IF term.value.k # "null" THEN term.value ELSE PyNone,
             Len(term.children) > 0,
             IF Len(term.children) > 0
             THEN [i \in 1..Len(term.children) |-> dict(term.children[i])]
             ELSE <<>>)

\* QueryTerm._registry: the names given to QueryTerm.register
Registry ==
    {"root", "index", "identifier", "idx_op", "mmap_op", "sub_op", "cmap_op"}

\* A constructor argument that is no QueryTerm (a scalar, a list) is kept
\* as a pseudo-term: it is an instance of no registered class.
AsTerm(a) == IF a.k = "obj" THEN a.v ELSE QueryTerm("#value", a, <<>>)

\* The call _root_cls(*args): each class's __init__ with its arity (a wrong
\* number of arguments is a TypeError) and its isinstance checks.
Call(type, args) ==
    CASE type = "root" ->
            IF Len(args) = 0 THEN Built(Root) ELSE Raised("TypeError")
      [] type = "index" ->
            IF Len(args) = 1 THEN Built(Index(args[1])) ELSE Raised("TypeError")
      [] type = "identifier" ->
            IF Len(args) = 1 THEN Built(Identifier(args[1]))
            ELSE Raised("TypeError")
      [] type = "idx_op" ->
            IF Len(args) = 2 THEN IndexExpr(AsTerm(args[1]), AsTerm(args[2]))
            ELSE Raised("TypeError")
      [] type = "mmap_op" ->
            IF Len(args) = 1 THEN MemberMapExpr(AsTerm(args[1]))
            ELSE Raised("TypeError")
      [] type = "sub_op" ->
            IF Len(args) = 2 THEN SubExpr(AsTerm(args[1]), AsTerm(args[2]))
            ELSE Raised("TypeError")
      [] type = "cmap_op" ->
            IF Len(args) = 1 THEN ChildMapExpr(AsTerm(args[1]))
            ELSE Raised("TypeError")

\* QueryTerm.fromdict; d.get(key) is None for an absent key
RECURSIVE fromdict(_)
fromdict(d) ==
    IF d.type \notin Registry THEN Raised("ASTException")
    ELSE
      LET value == IF d.has_value THEN d.value ELSE PyNone
          n == IF d.has_children THEN Len(d.children) ELSE 0
          built == [i \in 1..n |-> fromdict(d.children[i])]
          failed == {i \in 1..n : ~built[i].ok}
          children == [i \in 1..n |-> PyObj(built[i].expr)]
      IN  IF n > 0
          THEN IF failed # {}
               THEN built[CHOOSE i \in failed : \A j \in failed : i <= j]
               ELSE IF Truthy(value)
               THEN Call(d.type, <<value, PyList(children)>>)
               ELSE Call(d.type, children)
          ELSE IF Truthy(value) THEN Call(d.type, <<value>>)
          ELSE Call(d.type, <<>>)

-----------------------------------------------------------------------------
(* jsque/pipeline.py: the pipeline components *)

Pipe(cls, number, key) == [cls |-> cls, number |-> number, key |-> key]
PipeIndex(number) == Pipe("Index", number, <<>>)
PipeSub(key) == Pipe("Sub", 0, key)
PipeMemberMap == Pipe("MemberMap", 0, <<>>)
PipeChildMap == Pipe("ChildMap", 0, <<>>)
\* stands where no component was popped yet
NoPipe == Pipe("", 0, <<>>)

\* isinstance(component, Injection), isinstance(component, Surjection)
IsInjection(c) == c.cls \in {"Index", "Sub"}
IsSurjection(c) == c.cls \in {"MemberMap", "ChildMap"}

\* type(x).__name__
TypeName(x) ==
    CASE x.k = "null" -> "NoneType"
      [] x.k = "num" -> "int"
      [] x.k = "bool" -> "bool"
      [] x.k = "str" -> "str"
      [] x.k = "list" -> "list"
      [] x.k = "map" -> "dict"
      [] OTHER -> "object"

\* hasattr(x, "__getitem__"): list, str and dict have it
HasGetItem(x) == x.k \in {"list", "str", "map"}
\* hasattr(x, "__iter__")
HasIter(x) == x.k \in {"list", "str", "map"}
\* hasattr(x, "values")
HasValues(x) == x.k = "map"

Found(v) == [found |-> TRUE, value |-> v]
NotFound == [found |-> FALSE, value |-> PyNone]

\* items[n] of a sequence of Python values: n counts from the end when
\* negative; IndexError outside -len..len-1
SeqItem(items, n) ==
    LET len == Len(items)
    IN  IF 0 <= n /\ n < len THEN Found(items[n + 1])
        ELSE IF n < 0 /\ 0 - len <= n THEN Found(items[len + n + 1])
        ELSE NotFound

\* the characters of a str, each a str of length one
Chars(s) == [i \in 1..Len(s) |-> PyStr(<<s[i]>>)]

\* x[key] of a list, str or dict; NotFound stands for the IndexError,
\* KeyError or TypeError the subscription raises
GetItem(x, key) ==
    CASE x.k = "list" ->
            IF key.k = "num" THEN SeqItem(x.v, key.v) ELSE NotFound
      [] x.k = "str" ->
            IF key.k = "num" THEN SeqItem(Chars(x.v), key.v) ELSE NotFound
      [] x.k = "map" ->
            LET hits == {i \in 1..Len(x.v) : x.v[i][1] = key}
            IN  IF hits = {} THEN NotFound
                ELSE Found(x.v[CHOOSE i \in hits : TRUE][2])

\* the outcome of Injection.eval: the value returned, whether it is the None
\* of the except branch (a miss), or the EvaluationException raised
Returned(v) == [ok |-> TRUE, miss |-> FALSE, value |-> v]
Missed == [ok |-> TRUE, miss |-> TRUE, value |-> PyNone]
InjectionFailed == [ok |-> FALSE, miss |-> FALSE, value |-> PyNone]

\* Index.eval without the support of negative indices
IndexEvalFromStart(number, x) ==
    IF ~HasGetItem(x) THEN InjectionFailed
    ELSE LET r == GetItem(x, PyInt(number))
         IN  IF r.found /\ (x.k = "map" \/ number >= 0) THEN Returned(r.value)
             ELSE Missed

\* Index.eval
IndexEval(number, x) ==
    IF ~HasGetItem(x) THEN InjectionFailed
    ELSE LET r == GetItem(x, PyInt(number))
         IN  IF r.found THEN Returned(r.value) ELSE Missed

\* Sub.eval that demands a mapping
SubEvalMappingOnly(key, x) ==
    IF x.k # "map" THEN InjectionFailed
    ELSE LET r == GetItem(x, PyStr(key))
         IN  IF r.found THEN Returned(r.value) ELSE Missed

\* Sub.eval
SubEval(key, x) ==
    IF ~HasGetItem(x) THEN InjectionFailed
    ELSE LET r == GetItem(x, PyStr(key))
         IN  IF r.found THEN Returned(r.value) ELSE Missed

\* component.eval(x) that passes None through as a miss
InjectionEvalNullSafe(component, x) ==
    IF x.k = "null" THEN Missed
    ELSE IF component.cls = "Index" THEN IndexEval(component.number, x)
    ELSE SubEval(component.key, x)

\* component.eval(x) of an Injection
InjectionEval(component, x) ==
    IF component.cls = "Index" THEN IndexEval(component.number, x)
    ELSE SubEval(component.key, x)

\* the outcome of iterating Surjection.eval(x): the items yielded, or the
\* EvaluationException raised when the iteration starts
Yielded(items) == [ok |-> TRUE, items |-> items]
SurjectionFailed == [ok |-> FALSE, items |-> <<>>]

\* MemberMap.eval that demands a list
MemberMapEvalListOnly(x) ==
    IF x.k # "list" THEN SurjectionFailed ELSE Yielded(x.v)

\* MemberMap.eval: iter(x) of a list gives its items, of a str its
\* characters, of a dict its keys
MemberMapEval(x) ==
    IF ~HasIter(x) THEN SurjectionFailed
    ELSE CASE x.k = "list" -> Yielded(x.v)
           [] x.k = "str" -> Yielded(Chars(x.v))
           [] x.k = "map" -> Yielded([i \in 1..Len(x.v) |-> x.v[i][1]])

\* ChildMap.eval
ChildMapEval(x) ==
    IF ~HasValues(x) THEN SurjectionFailed
    ELSE Yielded([i \in 1..Len(x.v) |-> x.v[i][2]])

\* component.eval(x) of a Surjection
SurjectionEval(component, x) ==
    IF component.cls = "MemberMap" THEN MemberMapEval(x) ELSE ChildMapEval(x)

-----------------------------------------------------------------------------
(* jsque/ast.py: to_pipeline.  A Pipeline is the tuple of its components.  *)

\* Pipeline.__add__ that puts the other pipeline's components first
PipelineAddOtherFirst(self, other) == other \o self

\* Pipeline.__add__: Pipeline(*self.components, *other.components)
PipelineAdd(self, other) == self \o other

\* IndexExpr.pipe, MemberMapExpr.pipe, SubExpr.pipe, ChildMapExpr.pipe
pipe(term) ==
    CASE term.type = "idx_op" -> PipeIndex(term.children[2].value.v)
      [] term.type = "mmap_op" -> PipeMemberMap
      [] term.type = "sub_op" -> PipeSub(term.children[2].value.v)
      [] term.type = "cmap_op" -> PipeChildMap

Compiled(components) == [ok |-> TRUE, err |-> "", components |-> components]
NotCompilable ==
    [ok |-> FALSE, err |-> "ASTException: unexpected term", components |-> <<>>]

\* to_pipeline: the isinstance tests are tests of the term's class
RECURSIVE to_pipeline(_)
to_pipeline(q) ==
    IF q.type = "root" THEN Compiled(<<>>)
    ELSE IF q.type \in {"idx_op", "mmap_op", "sub_op", "cmap_op"}
    THEN LET left == to_pipeline(q.children[1])
         IN  IF left.ok
             THEN Compiled(PipelineAdd(left.components, <<pipe(q)>>))
             ELSE left
    ELSE NotCompilable

-----------------------------------------------------------------------------
(* jsque/pipeline.py: Pipeline.eval, one frame per active call *)

\* The locals of one Pipeline.eval call: components (the list copied from
\* self.components, popped from the front), component (the one popped last)
\* and x; once a Surjection is reached (mode "collect"): exploded (what it
\* yields), elems (not yet evaluated) and acc (the list being built).
\* start is the argument of the call and absent tells that x is the None a
\* lookup miss returned.
Frame(components, x) ==
    [components |-> components, component |-> NoPipe, x |-> x, start |-> x,
     mode |-> "loop", exploded |-> <<>>, elems |-> <<>>, acc |-> <<>>,
     absent |-> FALSE]

\* the value a finished frame returns and leaves one level of list unwrapped
ReturnValueUnwrapSingle(frame) ==
    IF frame.mode = "loop" THEN frame.x
    ELSE IF Len(frame.acc) = 1 THEN frame.acc[1]
    ELSE PyList(frame.acc)

\* the value a finished frame returns: x when the components ran out, the
\* list of the per-element results after a Surjection
ReturnValue(frame) ==
    IF frame.mode = "loop" THEN frame.x ELSE PyList(frame.acc)

Succeeded(v) == [ok |-> TRUE, value |-> v, err |-> <<>>, on_absent |-> FALSE]

\* the failure of a step swallowed: the call returns None
FailedAsNone(frames, cls) == Succeeded(PyNone)

\* The EvaluationException leaving the outermost call when the innermost
\* frame's component cls fails: every active call wraps it with the name of
\* its own component and the type of its own x, outermost first.
Failed(frames, cls) ==
    [ok |-> FALSE, value |-> PyNone,
     err |-> [i \in 1..Len(frames) |->
                [component |-> IF i = Len(frames) THEN cls
                               ELSE frames[i].component.cls,
                 on |-> TypeName(frames[i].x)]],
     on_absent |-> frames[Len(frames)].absent]

NotRun == [ok |-> FALSE, value |-> PyNone, err |-> <<>>, on_absent |-> FALSE]

NoStep ==
    [component |-> NoPipe, x |-> PyNone, absent |-> FALSE, ok |-> FALSE,
     miss |-> FALSE, value |-> PyNone, items |-> <<>>]

\* an Injection applied to x (absent: x is a miss's None) with its outcome
AppliedInjection(component, x, absent, r) ==
    [component |-> component, x |-> x, absent |-> absent, ok |-> r.ok,
     miss |-> r.miss, value |-> r.value, items |-> <<>>]

AppliedSurjection(component, x, absent, e) ==
    [component |-> component, x |-> x, absent |-> absent, ok |-> e.ok,
     miss |-> FALSE, value |-> PyNone, items |-> e.items]

-----------------------------------------------------------------------------
(* The inputs of the scenarios *)

\* the number of operators of a query AST
MaxOps == 3
\* the length of an arbitrary source string
MaxLen == 4
\* the number of operations of a source string written in the surface syntax
MaxSrcOps == 2

IndexSamples == {0, 1, -1, 10, -12}

\* identifier texts; the empty one is no text of the surface grammar
IdentifierSamples ==
    {<<>>, <<"a">>, <<"_">>, <<"a", "]">>, <<"k", "-", "1">>, <<"x", "*", "@">>}

\* the root-anchored chains of at most n operators
RECURSIVE Queries(_)
Queries(n) ==
    IF n = 0 THEN {Root}
    ELSE LET shorter == Queries(n - 1)
         IN  shorter
             \cup {IndexExpr(t, Index(PyInt(i))).expr :
                      t \in shorter, i \in IndexSamples}
             \cup {MemberMapExpr(t).expr : t \in shorter}
             \cup {SubExpr(t, Identifier(PyStr(id))).expr :
                      t \in shorter, id \in IdentifierSamples}
             \cup {ChildMapExpr(t).expr : t \in shorter}

Alphabet == {"@", ".", "[", "]", "*", "a", "1", "-", " ", "#"}

Strings(n) == UNION {[1..m -> Alphabet] : m \in 0..n}

OperationTexts ==
    {<<"[", "0", "]">>, <<"[", "1", "]">>, <<"[", "-", "1", "]">>,
     <<"[", "0", "1", "]">>, <<"[", "-", "0", "]">>, <<"[", "1", "0", "]">>,
     <<"[", "*", "]">>, <<".", "a">>, <<".", "a", "]">>, <<".", "*">>,
     <<".", "_", "b">>}

\* '@' followed by at most n operation texts
RECURSIVE SurfaceSources(_)
SurfaceSources(n) ==
    IF n = 0 THEN {<<"@">>}
    ELSE LET shorter == SurfaceSources(n - 1)
         IN  shorter \cup {s \o op : s \in shorter, op \in OperationTexts}

Sources == Strings(MaxLen) \cup SurfaceSources(MaxSrcOps)

NoTokens == [ok |-> FALSE, err |-> "not run", tokens |-> <<>>]
NoDict == TermDict("", FALSE, PyNone, FALSE, <<>>)

\* the number of components of an evaluated pipeline
MaxSteps == 3
\* the number of components of a pipeline evaluated several times
MaxReuseSteps == 2
\* the number of evaluations of a pipeline evaluated several times
MaxCalls == 3

ComponentSamples ==
    {PipeIndex(0), PipeIndex(1), PipeIndex(-1), PipeSub(<<"a">>),
     PipeMemberMap, PipeChildMap}

Pipelines(n) == UNION {[1..m -> ComponentSamples] : m \in 0..n}

KeyA == PyStr(<<"a">>)
KeyB == PyStr(<<"b">>)
KeyC == PyStr(<<"c">>)

\* [1, 2, 3]
SubjectNumbers == PyList(<<PyInt(1), PyInt(2), PyInt(3)>>)
\* {"a": [[], ["b"], {"a": 3}]}
SubjectMixedList ==
    PyDict(<< <<KeyA, PyList(<<PyList(<<>>), PyList(<<KeyB>>),
                               PyDict(<< <<KeyA, PyInt(3)>> >>)>>)>> >>)
\* {"a": [0, 1], "b": "ab", "c": []}
SubjectMixedDict ==
    PyDict(<< <<KeyA, PyList(<<PyInt(0), PyInt(1)>>)>>,
              <<KeyB, PyStr(<<"a", "b">>)>>,
              <<KeyC, PyList(<<>>)>> >>)
\* {0: "z", "a": None}
SubjectIntKey == PyDict(<< <<PyInt(0), PyStr(<<"z">>)>>, <<KeyA, PyNone>> >>)
\* [[1], [2, 3]]
SubjectNested ==
    PyList(<<PyList(<<PyInt(1)>>), PyList(<<PyInt(2), PyInt(3)>>)>>)
\* [{"a": 1}, 5]
SubjectHeterogeneous ==
    PyList(<<PyDict(<< <<KeyA, PyInt(1)>> >>), PyInt(5)>>)
\* {"a": {"a": [1, 2]}, "b": {"a": "ab"}}
SubjectDeep ==
    PyDict(<< <<KeyA, PyDict(<< <<KeyA, PyList(<<PyInt(1), PyInt(2)>>)>> >>)>>,
              <<KeyB, PyDict(<< <<KeyA, PyStr(<<"a", "b">>)>> >>)>> >>)

Subjects ==
    {SubjectNumbers, SubjectMixedList, SubjectMixedDict, SubjectIntKey,
     SubjectNested, SubjectHeterogeneous, SubjectDeep,
     PyStr(<<"a", "b">>), PyInt(5), PyBool(TRUE), PyNone,
     PyList(<<>>), PyDict(<<>>)}

\* what a reused pipeline is evaluated on between two evaluations of subject
OtherSubjects == {SubjectNumbers, SubjectDeep, PyInt(5)}

\* the evaluator before any call, and the front end when it is not used
EvalIdle ==
    /\ self_components = <<>>
    /\ subject = PyNone
    /\ arg = PyNone
    /\ stack = <<>>
    /\ result = NotRun
    /\ first = NotRun
    /\ calls = 0
    /\ limit = 0
    /\ applied = NoStep
    /\ strayed = FALSE

FrontIdle ==
    /\ done = {}
    /\ query = NoTerm
    /\ source = <<>>
    /\ tokens = NoTokens
    /\ parsed = Raised("not run")
    /\ formatted = NoText("not run")
    /\ tree = NoDict
    /\ rebuilt = Raised("not run")

\* stands where to_pipeline was not called
NotCompiled == [ok |-> FALSE, err |-> "not run", components |-> <<>>]

\* the lexer and the compiler when a scenario does not use them
OtherIdle ==
    /\ scan_idx = 0
    /\ scanned = <<>>
    /\ plain = NoTokens
    /\ inserted = 0
    /\ compiled = NotCompiled

-----------------------------------------------------------------------------
(* Scenario 1: a caller holds a source string, parses it and formats the  *)
(* AST it got (cli.py, the format command).                                *)

Init ==
    /\ source \in Sources
    /\ done = {}
    /\ query = NoTerm
    /\ tokens = NoTokens
    /\ parsed = Raised("not run")
    /\ formatted = NoText("not run")
    /\ tree = NoDict
    /\ rebuilt = Raised("not run")
    /\ EvalIdle
    /\ OtherIdle

\* parser.parse_jsque_expression(source): tokenize, then the parse loop
Parse ==
    /\ "parse" \notin done
    /\ tokens' = tokenize(source)
    /\ parsed' = parse_jsque_expression(source)
    /\ done' = done \cup {"parse"}
    /\ UNCHANGED <<query, source, formatted, tree, rebuilt>>
    /\ UNCHANGED evalVars
    /\ UNCHANGED otherVars

\* format.format_jsque_expression(parsed_ast)
FormatParsed ==
    /\ "parse" \in done
    /\ "format" \notin done
    /\ parsed.ok
    /\ formatted' = format_jsque_expression(parsed.expr)
    /\ done' = done \cup {"format"}
    /\ UNCHANGED <<query, source, tokens, parsed, tree, rebuilt>>
    /\ UNCHANGED evalVars
    /\ UNCHANGED otherVars

Next == Parse \/ FormatParsed

Spec == Init /\ [][Next]_vars

-----------------------------------------------------------------------------
(* Scenario 2: a caller holds an AST, formats it and parses the text back, *)
(* and writes it to a dict and reads the dict back.                        *)

InitAst ==
    /\ query \in Queries(MaxOps)
    /\ done = {}
    /\ source = <<>>
    /\ tokens = NoTokens
    /\ parsed = Raised("not run")
    /\ formatted = NoText("not run")
    /\ tree = NoDict
    /\ rebuilt = Raised("not run")
    /\ EvalIdle
    /\ OtherIdle

\* format.format_jsque_expression(query)
FormatQuery ==
    /\ "format" \notin done
    /\ formatted' = format_jsque_expression(query)
    /\ done' = done \cup {"format"}
    /\ UNCHANGED <<query, source, tokens, parsed, tree, rebuilt>>
    /\ UNCHANGED evalVars
    /\ UNCHANGED otherVars

\* parser.parse_jsque_expression(the formatted text)
ParseFormatted ==
    /\ "format" \in done
    /\ "parse" \notin done
    /\ formatted.ok
    /\ source' = formatted.text
    /\ tokens' = tokenize(formatted.text)
    /\ parsed' = parse_jsque_expression(formatted.text)
    /\ done' = done \cup {"parse"}
    /\ UNCHANGED <<query, formatted, tree, rebuilt>>
    /\ UNCHANGED evalVars
    /\ UNCHANGED otherVars

\* query.dict()
ToDict ==
    /\ "dict" \notin done
    /\ tree' = dict(query)
    /\ done' = done \cup {"dict"}
    /\ UNCHANGED <<query, source, tokens, parsed, formatted, rebuilt>>
    /\ UNCHANGED evalVars
    /\ UNCHANGED otherVars

\* QueryTerm.fromdict(tree)
FromDict ==
    /\ "dict" \in done
    /\ "fromdict" \notin done
    /\ rebuilt' = fromdict(tree)
    /\ done' = done \cup {"fromdict"}
    /\ UNCHANGED <<query, source, tokens, parsed, formatted, tree>>
    /\ UNCHANGED evalVars
    /\ UNCHANGED otherVars

NextAst == FormatQuery \/ ParseFormatted \/ ToDict \/ FromDict

SpecAst == InitAst /\ [][NextAst]_vars

-----------------------------------------------------------------------------
(* Scenario 3: a caller holds a compiled pipeline and evaluates it on its  *)
(* subject (cli.py, the eval command): once, or several times with         *)
(* evaluations on other subjects in between.                               *)

InitEval ==
    /\ FrontIdle
    /\ OtherIdle
    /\ self_components \in Pipelines(MaxSteps)
    /\ subject \in Subjects
    /\ arg = PyNone
    /\ stack = <<>>
    /\ result = NotRun
    /\ first = NotRun
    /\ calls = 0
    /\ limit = 1
    /\ applied = NoStep
    /\ strayed = FALSE

InitReuse ==
    /\ FrontIdle
    /\ OtherIdle
    /\ self_components \in Pipelines(MaxReuseSteps)
    /\ subject \in Subjects
    /\ arg = PyNone
    /\ stack = <<>>
    /\ result = NotRun
    /\ first = NotRun
    /\ calls = 0
    /\ limit = MaxCalls
    /\ applied = NoStep
    /\ strayed = FALSE

Top == stack[Len(stack)]

\* the stack with its top frame replaced
WithTop(frame) == [stack EXCEPT ![Len(stack)] = frame]

\* the outermost call ends with outcome r
Finish(r) ==
    /\ stack' = <<>>
    /\ result' = r
    /\ first' = IF calls = 0 THEN r ELSE first
    /\ calls' = calls + 1

\* pipeline.eval(x) that pops from self.components itself, not from a copy:
\* the pipeline is left without the components the call consumes
EvalCallConsuming ==
    /\ stack = <<>>
    /\ calls < limit
    /\ \E a \in (IF calls = 0 THEN {subject} ELSE {subject} \cup OtherSubjects) :
          /\ arg' = a
          /\ strayed' = (strayed \/ a # subject)
          /\ stack' = <<Frame(self_components, a)>>
    /\ self_components' = <<>>
    /\ UNCHANGED <<subject, result, first, calls, limit, applied>>
    /\ UNCHANGED frontVars
    /\ UNCHANGED otherVars

\* The caller calls pipeline.eval(x); line 207 copies self.components into
\* the local list components.
EvalCall ==
    /\ stack = <<>>
    /\ calls < limit
    /\ \E a \in (IF calls = 0 THEN {subject} ELSE {subject} \cup OtherSubjects) :
          /\ arg' = a
          /\ strayed' = (strayed \/ a # subject)
          /\ stack' = <<Frame(self_components, a)>>
    /\ UNCHANGED <<self_components, subject, result, first, calls, limit,
                   applied>>
    /\ UNCHANGED frontVars
    /\ UNCHANGED otherVars

\* Lines 208-211: the next component is popped and is an Injection; x becomes
\* component.eval(x), or the EvaluationException leaves every active call.
StepInjection ==
    /\ stack # <<>>
    /\ Top.mode = "loop"
    /\ Top.components # <<>>
    /\ IsInjection(Head(Top.components))
    /\ LET component == Head(Top.components)
           r == InjectionEval(component, Top.x)
       IN  /\ applied' = AppliedInjection(component, Top.x, Top.absent, r)
           /\ IF r.ok
              THEN /\ stack' = WithTop([Top EXCEPT
                                           !.components = Tail(Top.components),
                                           !.component = component,
                                           !.x = r.value,
                                           !.absent = r.miss])
                   /\ UNCHANGED <<result, first, calls>>
              ELSE Finish(Failed(stack, component.cls))
    /\ UNCHANGED <<self_components, subject, arg, limit, strayed>>
    /\ UNCHANGED frontVars
    /\ UNCHANGED otherVars

\* Lines 212-214: the next component is popped and is a Surjection; the
\* components left are the right pipeline and component.eval(x) is iterated.
StepSurjection ==
    /\ stack # <<>>
    /\ Top.mode = "loop"
    /\ Top.components # <<>>
    /\ IsSurjection(Head(Top.components))
    /\ LET component == Head(Top.components)
           e == SurjectionEval(component, Top.x)
       IN  /\ applied' = AppliedSurjection(component, Top.x, Top.absent, e)
           /\ IF e.ok
              THEN /\ stack' = WithTop([Top EXCEPT
                                           !.components = Tail(Top.components),
                                           !.component = component,
                                           !.mode = "collect",
                                           !.exploded = e.items,
                                           !.elems = e.items,
                                           !.acc = <<>>])
                   /\ UNCHANGED <<result, first, calls>>
              ELSE Finish(Failed(stack, component.cls))
    /\ UNCHANGED <<self_components, subject, arg, limit, strayed>>
    /\ UNCHANGED frontVars
    /\ UNCHANGED otherVars

\* right_pipeline.eval on the un-exploded x instead of the next element
DescendOnCurrent ==
    /\ stack # <<>>
    /\ Top.mode = "collect"
    /\ Top.elems # <<>>
    /\ stack' = Append(WithTop([Top EXCEPT !.elems = Tail(Top.elems)]),
                       Frame(Top.components, Top.x))
    /\ UNCHANGED <<self_components, subject, arg, result, first, calls, limit,
                   applied, strayed>>
    /\ UNCHANGED frontVars
    /\ UNCHANGED otherVars

\* Line 214, one turn of the comprehension: right_pipeline.eval(y) is called
\* on the next element y.
Descend ==
    /\ stack # <<>>
    /\ Top.mode = "collect"
    /\ Top.elems # <<>>
    /\ stack' = Append(WithTop([Top EXCEPT !.elems = Tail(Top.elems)]),
                       Frame(Top.components, Head(Top.elems)))
    /\ UNCHANGED <<self_components, subject, arg, result, first, calls, limit,
                   applied, strayed>>
    /\ UNCHANGED frontVars
    /\ UNCHANGED otherVars

\* Lines 214 and 221: a call returns, to the comprehension of the call that
\* made it or to the caller.
Return ==
    /\ stack # <<>>
    /\ \/ Top.mode = "loop" /\ Top.components = <<>>
       \/ Top.mode = "collect" /\ Top.elems = <<>>
    /\ IF Len(stack) > 1
       THEN LET parent == stack[Len(stack) - 1]
                below == SubSeq(stack, 1, Len(stack) - 2)
            IN  /\ stack' = Append(below,
                      [parent EXCEPT !.acc = Append(parent.acc, ReturnValue(Top))])
                /\ UNCHANGED <<result, first, calls>>
       ELSE Finish(Succeeded(ReturnValue(Top)))
    /\ UNCHANGED <<self_components, subject, arg, limit, applied, strayed>>
    /\ UNCHANGED frontVars
    /\ UNCHANGED otherVars

NextEval == EvalCall \/ StepInjection \/ StepSurjection \/ Descend \/ Return

SpecEval == InitEval /\ [][NextEval]_vars

SpecReuse == InitReuse /\ [][NextEval]_vars

-----------------------------------------------------------------------------
(* Scenario 4: tokenize(source) runs its while loop, one iteration a step. *)

\* the length of a source string scanned step by step
MaxScanLen == 3

InitLex ==
    /\ source \in Strings(MaxScanLen) \cup SurfaceSources(1)
    /\ done = {}
    /\ query = NoTerm
    /\ tokens = NoTokens
    /\ parsed = Raised("not run")
    /\ formatted = NoText("not run")
    /\ tree = NoDict
    /\ rebuilt = Raised("not run")
    /\ EvalIdle
    /\ OtherIdle

\* the loop is at its head with a character left to read
Scanning == tokens = NoTokens /\ scan_idx < Len(source)

\* one iteration of the loop: idx and tokens as ScanStep leaves them
Advance ==
    LET s == ScanStep(source, scan_idx)
    IN  /\ s.ok
        /\ scan_idx' = s.idx
        /\ scanned' = scanned \o s.emit
        /\ UNCHANGED <<frontVars, evalVars, plain, inserted, compiled>>

\* lines 139-141: a whitespace character is skipped
ScanWhitespace ==
    /\ Scanning
    /\ source[scan_idx + 1] \in Whitespace
    /\ Advance

\* lines 143-145 and 153-164: '@', '.', '[', ']' or '*' gives its token
ScanSymbol ==
    /\ Scanning
    /\ source[scan_idx + 1] \in {"@", ".", "[", "]", "*"}
    /\ Advance

\* lines 146-149: a letter or '_' starts an identifier
ScanIdentifier ==
    /\ Scanning
    /\ source[scan_idx + 1] \in AsciiLetters \cup {"_"}
    /\ Advance

\* lines 165-168: a digit or '-' starts an index
ScanIndex ==
    /\ Scanning
    /\ source[scan_idx + 1] \in Digits \cup {"-"}
    /\ Advance

\* lines 169-172: any other character raises LexerException
ScanUnexpected ==
    /\ Scanning
    /\ ~ScanStep(source, scan_idx).ok
    /\ tokens' = [ok |-> FALSE, err |-> "LexerException", tokens |-> <<>>]
    /\ done' = done \cup {"tokenize"}
    /\ UNCHANGED <<query, source, parsed, formatted, tree, rebuilt>>
    /\ UNCHANGED <<evalVars, otherVars>>

\* lines 136 and 174: the loop condition fails and tokens is returned
ScanReturn ==
    /\ tokens = NoTokens
    /\ ~(scan_idx < Len(source))
    /\ tokens' = [ok |-> TRUE, err |-> "", tokens |-> scanned]
    /\ done' = done \cup {"tokenize"}
    /\ UNCHANGED <<query, source, parsed, formatted, tree, rebuilt>>
    /\ UNCHANGED <<evalVars, otherVars>>

NextLex ==
    \/ ScanWhitespace
    \/ ScanSymbol
    \/ ScanIdentifier
    \/ ScanIndex
    \/ ScanUnexpected
    \/ ScanReturn

SpecLex == InitLex /\ [][NextLex]_vars

\* a running call is not suspended for ever: the code is sequential
SpecLexFair == SpecLex /\ WF_vars(NextLex)

-----------------------------------------------------------------------------
(* Scenario 5: a caller tokenizes a source string, inserts whitespace where *)
(* no token is cut, and tokenizes the string again (test_lexer.py,          *)
(* test_tokenize__whitespace).                                              *)

\* the length of a source string before whitespace is inserted
MaxSpaceLen == 3
\* the number of whitespace characters inserted
MaxInsertions == 2

SpaceAlphabet == {"@", ".", "a", "1", " "}

\* the whitespace inserted: a space, a tab, a newline
InsertedWhitespace == {" ", "\t", "\n"}

\* The positions the loop of tokenize stands at from position i on: where a
\* token or a skipped whitespace character starts, and the end of the source.
RECURSIVE LoopHeads(_, _)
LoopHeads(src, i) ==
    IF i < Len(src)
    THEN LET s == ScanStep(src, i)
         IN  IF s.ok /\ s.idx > i THEN {i} \cup LoopHeads(src, s.idx) ELSE {i}
    ELSE {i}

InitSpace ==
    /\ source \in UNION {[1..m -> SpaceAlphabet] : m \in 0..MaxSpaceLen}
    /\ done = {}
    /\ query = NoTerm
    /\ tokens = NoTokens
    /\ parsed = Raised("not run")
    /\ formatted = NoText("not run")
    /\ tree = NoDict
    /\ rebuilt = Raised("not run")
    /\ EvalIdle
    /\ OtherIdle

\* tokenize(source)
TokenizeSource ==
    /\ tokens = NoTokens
    /\ tokens' = tokenize(source)
    /\ done' = done \cup {"tokenize"}
    /\ UNCHANGED <<query, source, parsed, formatted, tree, rebuilt>>
    /\ UNCHANGED <<evalVars, otherVars>>

\* the caller writes one more whitespace character into the source, before
\* a token, after a token or beside other whitespace
InsertWhitespace ==
    /\ tokens # NoTokens
    /\ tokens.ok
    /\ inserted < MaxInsertions
    /\ \E p \in LoopHeads(source, 0), w \in InsertedWhitespace :
          source' = SubSeq(source, 1, p) \o <<w>>
                        \o SubSeq(source, p + 1, Len(source))
    /\ plain' = IF inserted = 0 THEN tokens ELSE plain
    /\ inserted' = inserted + 1
    /\ tokens' = NoTokens
    /\ UNCHANGED <<done, query, parsed, formatted, tree, rebuilt>>
    /\ UNCHANGED <<evalVars, scan_idx, scanned, compiled>>

NextSpace == TokenizeSource \/ InsertWhitespace

SpecSpace == InitSpace /\ [][NextSpace]_vars

-----------------------------------------------------------------------------
(* Scenario 6: a caller hands a hand-written dict to QueryTerm.fromdict     *)
(* (cli.py, the parse and format commands on a record).                     *)

\* the number of children of a hand-written record
MaxChildren == 2

\* the seven registered names and one that is not registered
RecordTypes == Registry \cup {"slice"}

\* a record without the key "children"
LeafRecord(type, has_value, value) ==
    TermDict(type, has_value, value, FALSE, <<>>)

LeafRecords ==
    {LeafRecord("root", FALSE, PyNone),
     LeafRecord("index", TRUE, PyInt(1)),
     LeafRecord("identifier", TRUE, PyStr(<<"a">>)),
     LeafRecord("slice", FALSE, PyNone)}

\* the records of any type whose first child is one of operands and whose
\* other children are leaf records
RecordsOver(operands) ==
    {TermDict(type, FALSE, PyNone, TRUE, <<operand>> \o others) :
        type \in RecordTypes,
        operand \in operands,
        others \in UNION {[1..m -> LeafRecords] : m \in 0..(MaxChildren - 1)}}

Records ==
    LET flat == LeafRecords \cup RecordsOver(LeafRecords)
    IN  flat \cup RecordsOver(flat)

InitTree ==
    /\ tree \in Records
    /\ done = {}
    /\ query = NoTerm
    /\ source = <<>>
    /\ tokens = NoTokens
    /\ parsed = Raised("not run")
    /\ formatted = NoText("not run")
    /\ rebuilt = Raised("not run")
    /\ EvalIdle
    /\ OtherIdle

\* QueryTerm.fromdict(tree)
ReadTree ==
    /\ "fromdict" \notin done
    /\ rebuilt' = fromdict(tree)
    /\ done' = done \cup {"fromdict"}
    /\ UNCHANGED <<query, source, tokens, parsed, formatted, tree>>
    /\ UNCHANGED <<evalVars, otherVars>>

NextTree == ReadTree

SpecTree == InitTree /\ [][NextTree]_vars

-----------------------------------------------------------------------------
(* Scenario 7: a caller holds an AST, built by the parser or by hand, and   *)
(* compiles it (cli.py, the eval command).                                  *)

\* the chains of at most n operators over one of the operands
RECURSIVE ChainsOver(_, _)
ChainsOver(operands, n) ==
    IF n = 0 THEN operands
    ELSE LET shorter == ChainsOver(operands, n - 1)
         IN  shorter
             \cup {IndexExpr(t, Index(PyInt(i))).expr :
                      t \in shorter, i \in IndexSamples}
             \cup {MemberMapExpr(t).expr : t \in shorter}
             \cup {SubExpr(t, Identifier(PyStr(id))).expr :
                      t \in shorter, id \in IdentifierSamples}
             \cup {ChildMapExpr(t).expr : t \in shorter}

\* leaves standing where an expression is expected
StrayOperands == {Index(PyInt(1)), Identifier(PyStr(<<"a">>))}

InitCompile ==
    /\ query \in Queries(MaxOps) \cup ChainsOver(StrayOperands, MaxOps - 1)
    /\ done = {}
    /\ source = <<>>
    /\ tokens = NoTokens
    /\ parsed = Raised("not run")
    /\ formatted = NoText("not run")
    /\ tree = NoDict
    /\ rebuilt = Raised("not run")
    /\ EvalIdle
    /\ OtherIdle

\* ast.to_pipeline(query): on success the caller holds the pipeline
Compile ==
    /\ "compile" \notin done
    /\ compiled' = to_pipeline(query)
    /\ self_components' = compiled'.components
    /\ done' = done \cup {"compile"}
    /\ UNCHANGED <<query, source, tokens, parsed, formatted, tree, rebuilt>>
    /\ UNCHANGED <<subject, arg, stack, result, first, calls, limit, applied,
                   strayed>>
    /\ UNCHANGED lexVars

NextCompile == Compile

SpecCompile == InitCompile /\ [][NextCompile]_vars

-----------------------------------------------------------------------------
(* The surface syntax (spec, external interfaces), stated on its own:      *)
(*   query = "@" *operation                                                *)
(*   operation = "[" (index / "*") "]" / "." (ident / "*")                 *)
(*   index = ["-"] 1*DIGIT                                                 *)
(*   ident = (ALPHA / "_") *(any char except "." "[" whitespace)           *)

IsIndexText(s) ==
    LET body == IF s # <<>> /\ Head(s) = "-" THEN Tail(s) ELSE s
    IN  body # <<>> /\ \A i \in 1..Len(body) : body[i] \in Digits

\* a decimal as str writes it: no leading zero, and no "-0"
IsCanonicalIndexText(s) ==
    /\ IsIndexText(s)
    /\ LET body == IF Head(s) = "-" THEN Tail(s) ELSE s
       IN  IF Head(body) = "0" THEN s = <<"0">> ELSE TRUE

IsIdentText(s) ==
    /\ s # <<>>
    /\ Head(s) \in AsciiLetters \cup {"_"}
    /\ \A i \in 1..Len(s) : s[i] \notin {".", "["} \cup Whitespace

\* the longest prefix of s made of characters of keep
RECURSIVE SpanIn(_, _)
SpanIn(s, keep) ==
    IF s # <<>> /\ Head(s) \in keep THEN <<Head(s)>> \o SpanIn(Tail(s), keep)
    ELSE <<>>

\* the longest prefix of s holding no character of stop
RECURSIVE SpanNotIn(_, _)
SpanNotIn(s, stop) ==
    IF s # <<>> /\ Head(s) \notin stop
    THEN <<Head(s)>> \o SpanNotIn(Tail(s), stop)
    ELSE <<>>

Drop(s, n) == SubSeq(s, n + 1, Len(s))

\* s is a sequence of operations; with canonical, every index is canonical
RECURSIVE IsOperationsText(_, _)
IsOperationsText(s, canonical) ==
    \/ s = <<>>
    \/ /\ Len(s) >= 3
       /\ SubSeq(s, 1, 3) = <<"[", "*", "]">>
       /\ IsOperationsText(Drop(s, 3), canonical)
    \/ /\ Len(s) >= 3
       /\ s[1] = "["
       /\ LET index == SpanIn(Tail(s), Digits \cup {"-"})
              after == Drop(s, 1 + Len(index))
          IN  /\ IF canonical THEN IsCanonicalIndexText(index)
                 ELSE IsIndexText(index)
              /\ after # <<>>
              /\ Head(after) = "]"
              /\ IsOperationsText(Tail(after), canonical)
    \/ /\ Len(s) >= 2
       /\ SubSeq(s, 1, 2) = <<".", "*">>
       /\ IsOperationsText(Drop(s, 2), canonical)
    \/ /\ Len(s) >= 2
       /\ s[1] = "."
       /\ LET ident == SpanNotIn(Tail(s), {".", "["} \cup Whitespace)
          IN  /\ IsIdentText(ident)
              /\ IsOperationsText(Drop(s, 1 + Len(ident)), canonical)

IsSurfaceSyntax(s) ==
    s # <<>> /\ Head(s) = "@" /\ IsOperationsText(Tail(s), FALSE)

IsCanonicalSyntax(s) ==
    s # <<>> /\ Head(s) = "@" /\ IsOperationsText(Tail(s), TRUE)

\* every identifier leaf of the term is a text of the surface grammar
RECURSIVE HasSurfaceLeaves(_)
HasSurfaceLeaves(t) ==
    /\ t.type = "identifier" => IsIdentText(t.value.v)
    /\ \A i \in 1..Len(t.children) : HasSurfaceLeaves(t.children[i])

\* the token grammar of the parser (spec, Parser):
\*   Root (LeftBracket (Index | Wildcard) RightBracket
\*         | SubOp (Identifier | Wildcard))*
RECURSIVE IsOperationTokens(_)
IsOperationTokens(toks) ==
    \/ toks = <<>>
    \/ /\ Len(toks) >= 3
       /\ toks[1].type = "lbrac"
       /\ \/ toks[2].type = "index" /\ IsIndexText(toks[2].value)
          \/ toks[2].type = "wild"
       /\ toks[3].type = "rbrac"
       /\ IsOperationTokens(Drop(toks, 3))
    \/ /\ Len(toks) >= 2
       /\ toks[1].type = "sub_op"
       /\ toks[2].type \in {"identifier", "wild"}
       /\ IsOperationTokens(Drop(toks, 2))

IsQueryTokens(toks) ==
    toks # <<>> /\ toks[1].type = "root" /\ IsOperationTokens(Tail(toks))

-----------------------------------------------------------------------------
(* The evaluator's semantics (spec, Evaluator), stated on its own *)

Value(v) == [ok |-> TRUE, value |-> v]
Failure == [ok |-> FALSE, value |-> PyNone]

\* evaluate(pipeline, x): an Injection replaces the current value; at a
\* Surjection the result is [evaluate(remaining, e) for e in step.eval(x)]
RECURSIVE Evaluate(_, _)
Evaluate(components, x) ==
    IF components = <<>> THEN Value(x)
    ELSE
      LET step == Head(components)
          remaining == Tail(components)
      IN  IF IsInjection(step)
          THEN LET r == InjectionEval(step, x)
               IN  IF r.ok THEN Evaluate(remaining, r.value) ELSE Failure
          ELSE LET e == SurjectionEval(step, x)
                   subs == [i \in 1..Len(e.items) |->
                              Evaluate(remaining, e.items[i])]
               IN  IF e.ok /\ \A i \in 1..Len(e.items) : subs[i].ok
                   THEN Value(PyList([i \in 1..Len(e.items) |-> subs[i].value]))
                   ELSE Failure

\* v is nested in one list per Surjection of components
RECURSIVE IsNested(_, _)
IsNested(components, v) ==
    IF components = <<>> THEN TRUE
    ELSE IF IsSurjection(Head(components))
    THEN /\ v.k = "list"
         /\ \A i \in 1..Len(v.v) : IsNested(Tail(components), v.v[i])
    ELSE IsNested(Tail(components), v)

\* element n of a sequence, counted from the end when n is negative, or the
\* null marker when n is out of range
ElementOrNull(items, n) ==
    IF 0 <= n /\ n < Len(items) THEN items[n + 1]
    ELSE IF n < 0 /\ n >= 0 - Len(items) THEN items[Len(items) + n + 1]
    ELSE PyNone

\* the items of a list, or the characters of a string
ItemsOf(x) ==
    IF x.k = "list" THEN x.v ELSE [i \in 1..Len(x.v) |-> PyStr(<<x.v[i]>>)]

\* the value a mapping stores under key, or the null marker
StoredOrNull(x, key) ==
    IF \E i \in 1..Len(x.v) : x.v[i][1] = key
    THEN x.v[CHOOSE i \in 1..Len(x.v) : x.v[i][1] = key][2]
    ELSE PyNone

-----------------------------------------------------------------------------
(* Claims *)

\* C1: for every well-formed AST whose identifier leaves are texts of the
\* surface grammar, formatting succeeds and parsing the formatted text gives
\* back an AST structurally equal to the one formatted.
C1_ParseFormatInverse ==
    HasSurfaceLeaves(query) =>
        /\ "format" \in done => formatted.ok
        /\ "parse" \in done => parsed = Built(query)

\* C1 witness: a three-operator AST with a negative two-digit index and an
\* identifier holding ']' has been formatted and parsed back.
C1_Witness ==
    /\ "parse" \in done
    /\ parsed.ok
    /\ query = IndexExpr(SubExpr(MemberMapExpr(Root).expr,
                                 Identifier(PyStr(<<"a", "]">>))).expr,
                         Index(PyInt(-12))).expr

\* C2 (as claimed): for every well-formed AST, index 0 and the empty
\* identifier included, fromdict(dict(t)) is structurally equal to t.
C2_DictRoundTrip == "fromdict" \in done => rebuilt = Built(query)

\* C3 (as claimed): for every source of the surface syntax, parsing succeeds
\* and formatting the parsed AST gives back the source, character for
\* character.
C3_FormatParseIdentity ==
    IsSurfaceSyntax(source) =>
        /\ "parse" \in done => parsed.ok
        /\ "format" \in done => formatted = Text(source)

\* C3 (amended): for every source of the surface syntax whose indices are
\* written as canonical decimals (no leading zero, no "-0"), parsing succeeds
\* and formatting the parsed AST gives back the source.
C3_FormatParseIdentityCanonical ==
    IsCanonicalSyntax(source) =>
        /\ "parse" \in done => parsed.ok
        /\ "format" \in done => formatted = Text(source)

\* C3 witness: "@[-1].a]" was parsed and formatted.
C3_Witness ==
    /\ "format" \in done
    /\ source = <<"@", "[", "-", "1", "]", ".", "a", "]">>
    /\ IsCanonicalSyntax(source)

\* C10: parse returns an AST exactly when the token sequence is a Root token
\* followed by groups LeftBracket (Index | Wildcard) RightBracket or
\* SubOp (Identifier | Wildcard) with every Index text a valid integer; on
\* every other token sequence, and when the lexer fails, it returns no AST.
C10_ParseAcceptsGrammar ==
    "parse" \in done =>
        /\ tokens.ok => (parsed.ok <=> IsQueryTokens(tokens.tokens))
        /\ ~tokens.ok => ~parsed.ok
        /\ ~parsed.ok => parsed.expr = NoTerm

\* C10 witness: "@[-]" lexes to Root LeftBracket Index("-") RightBracket,
\* whose index text is no integer, and parse has failed on it.
C10_Witness ==
    /\ "parse" \in done
    /\ tokens.ok
    /\ tokens.tokens = <<TokenRoot, TokenLeftBracket, TokenIndex(<<"-">>),
                         TokenRightBracket>>
    /\ ~parsed.ok

Completed == stack = <<>> /\ calls > 0

\* C4: while a call collects the results of a surjection step reached with
\* current value v, v is still the current value, one evaluation of the
\* remaining components is made per exploded element and in the order the
\* elements are yielded, each on that element alone; the results collected so
\* far are those of evaluate(remaining, element), in that order; and a
\* completed successful call returns what evaluate defines.
C4_SurjectionMapsRemainder ==
    /\ \A i \in 1..Len(stack) :
          LET f == stack[i]
          IN  f.mode = "collect" =>
                /\ f.exploded = SurjectionEval(f.component, f.x).items
                /\ Len(f.acc) + Len(f.elems)
                      + (IF i < Len(stack) THEN 1 ELSE 0) = Len(f.exploded)
                /\ f.elems = Drop(f.exploded, Len(f.exploded) - Len(f.elems))
                /\ \A j \in 1..Len(f.acc) :
                      Evaluate(f.components, f.exploded[j]) = Value(f.acc[j])
                /\ i < Len(stack) =>
                      /\ stack[i + 1].start = f.exploded[Len(f.acc) + 1]
                      /\ Len(stack[i + 1].components) <= Len(f.components)
    /\ Completed /\ result.ok => Value(result.value) = Evaluate(self_components, arg)

\* C4 witness: '@.a[*].a' on {"a": [[], ["b"], {"a": 3}]} has returned
\* [None, None, 3].
C4_Witness ==
    /\ Completed
    /\ self_components = <<PipeSub(<<"a">>), PipeMemberMap, PipeSub(<<"a">>)>>
    /\ arg = SubjectMixedList
    /\ result = Succeeded(PyList(<<PyNone, PyNone, PyInt(3)>>))

\* C5 (as claimed): the null marker of a lookup miss propagates through the
\* remaining steps: a step applied to it never fails.
C5_MissPropagates == applied.absent => applied.ok

\* C5 (amended): a lookup miss at an injection step is itself no error: an
\* injection applied to a list, a string or a mapping never fails, and on a
\* miss it yields the null marker as the current value, which is what the
\* call returns when that step is its last; the marker does not propagate:
\* any further step applied to it fails with EvaluationError.
C5_MissIsNullThenFails ==
    /\ IsInjection(applied.component) /\ applied.x.k \in {"list", "str", "map"}
          => applied.ok
    /\ applied.miss => applied.ok /\ applied.value = PyNone
    /\ \A i \in 1..Len(stack) :
          stack[i].absent =>
              /\ stack[i].x = PyNone
              /\ stack[i].mode = "loop"
              /\ stack[i].components = <<>> => ReturnValue(stack[i]) = PyNone
    /\ applied.absent => ~applied.ok
    /\ Completed /\ ~result.ok /\ result.on_absent => applied.absent

\* C5 witness: an evaluation of three components has failed at a step that
\* was applied to the null marker of the preceding step's miss.
C5_Witness ==
    /\ Completed
    /\ ~result.ok
    /\ result.on_absent
    /\ applied.absent
    /\ applied.x = PyNone
    /\ Len(self_components) = 3

\* C6 (as claimed): Index(n).eval(x) fails when x is a mapping, a number, a
\* boolean or null; on a sequence or a string it returns element n, counted
\* from the end when negative, and the null marker when n is out of range.
C6_IndexEval ==
    applied.component.cls = "Index" =>
        /\ applied.x.k \in {"map", "num", "bool", "null"} => ~applied.ok
        /\ applied.x.k \in {"list", "str"} =>
              /\ applied.ok
              /\ applied.value =
                    ElementOrNull(ItemsOf(applied.x), applied.component.number)

\* C6 (amended): Index(n).eval(x) fails when x is a number, a boolean or
\* null; on a sequence or a string it returns element n, counted from the
\* end when negative, and the null marker when n is out of range; on a
\* mapping it does not fail: it returns the value stored under the integer
\* key n, and the null marker when the mapping has no such key.
C6_IndexEvalMappingLooksUp ==
    applied.component.cls = "Index" =>
        /\ applied.x.k \in {"num", "bool", "null"} => ~applied.ok
        /\ applied.x.k \in {"list", "str"} =>
              /\ applied.ok
              /\ applied.value =
                    ElementOrNull(ItemsOf(applied.x), applied.component.number)
        /\ applied.x.k = "map" =>
              /\ applied.ok
              /\ applied.value =
                    StoredOrNull(applied.x, PyInt(applied.component.number))

\* C6 witness: Index(0) was applied to the mapping {0: "z", "a": None} and
\* returned "z".
C6_Witness ==
    /\ applied.component = PipeIndex(0)
    /\ applied.x = SubjectIntKey
    /\ applied.ok
    /\ applied.value = PyStr(<<"z">>)

\* C7: Sub(key).eval(x) returns the value stored at key when x is a mapping
\* containing key; it returns the null marker, without failing, when x is a
\* mapping lacking key, a list or a string; it fails when x is a number, a
\* boolean or null.
C7_SubEval ==
    applied.component.cls = "Sub" =>
        /\ applied.x.k = "map" =>
              /\ applied.ok
              /\ applied.value = StoredOrNull(applied.x, PyStr(applied.component.key))
        /\ applied.x.k \in {"list", "str"} =>
              applied.ok /\ applied.value = PyNone
        /\ applied.x.k \in {"num", "bool", "null"} => ~applied.ok

\* C7 witness: in '@.a[*].a' Sub("a") was applied to the list element ["b"]
\* and returned the null marker.
C7_Witness ==
    /\ applied.component = PipeSub(<<"a">>)
    /\ applied.x = PyList(<<KeyB>>)
    /\ applied.ok
    /\ applied.value = PyNone
    /\ Len(stack) = 2

\* C8: the result of a successful evaluation is nested in exactly one list
\* per surjection step of the pipeline: each surjection step contributes one
\* level, whose entries are nested by the remaining steps; a pipeline with
\* no surjection step returns the un-wrapped current value.
C8_NestingEqualsSurjections ==
    Completed /\ result.ok =>
        /\ IsNested(self_components, result.value)
        /\ (\A i \in 1..Len(self_components) : IsInjection(self_components[i]))
              => result.value = (IF self_components = <<>> THEN arg
                                 ELSE applied.value)

\* C8 witness: '@[*][*]' on [[1], [2, 3]] has returned [[1], [2, 3]], two
\* levels for two surjection steps.
C8_Witness ==
    /\ Completed
    /\ self_components = <<PipeMemberMap, PipeMemberMap>>
    /\ arg = SubjectNested
    /\ result = Succeeded(SubjectNested)

\* C9: Pipeline.eval changes neither the pipeline's components nor the
\* subject, and whenever an evaluation of the pipeline on the subject
\* completes, after any evaluations on the subject or on other values, its
\* outcome is that of the first evaluation.
C9_EvalIsRepeatable ==
    /\ [](Completed /\ arg = subject => result = first)
    /\ [][self_components' = self_components /\ subject' = subject]_vars

\* C9 witness: a third evaluation, made on the subject after one on another
\* value, has completed successfully on a pipeline of two components.
C9_Witness ==
    /\ Completed
    /\ calls = 3
    /\ strayed
    /\ arg = subject
    /\ result.ok
    /\ Len(self_components) = 2

-----------------------------------------------------------------------------
(* The lexer's contract (spec, Lexer), stated on its own: the lexemes of a  *)
(* string, read off its front, or none when a character starts no lexeme    *)

NoLexemes == [ok |-> FALSE, tokens |-> <<>>]

RECURSIVE LexemesOf(_)
LexemesOf(s) ==
    IF s = <<>> THEN [ok |-> TRUE, tokens |-> <<>>]
    ELSE
      LET c == Head(s)
          kind == CASE c = "@" -> "root"
                    [] c = "." -> "sub_op"
                    [] c = "[" -> "lbrac"
                    [] c = "]" -> "rbrac"
                    [] c = "*" -> "wild"
                    [] c \in AsciiLetters \cup {"_"} -> "identifier"
                    [] c \in Digits \cup {"-"} -> "index"
                    [] c \in Whitespace -> "space"
                    [] OTHER -> "none"
          run == CASE kind = "identifier" ->
                        SpanNotIn(s, {".", "["} \cup Whitespace)
                   [] kind = "index" -> SpanIn(s, Digits \cup {"-"})
                   [] OTHER -> <<c>>
          rest == LexemesOf(Drop(s, Len(run)))
      IN  IF kind = "none" \/ ~rest.ok THEN NoLexemes
          ELSE IF kind = "space" THEN rest
          ELSE [ok |-> TRUE,
                tokens |-> <<[type |-> kind, value |-> run]>> \o rest.tokens]

\* C11: tokenize emits, in source order, Root for '@', SubOp for '.',
\* LeftBracket for '[', RightBracket for ']', Wildcard for '*', an Identifier
\* for a run from a letter or '_' up to the next '.', '[' or whitespace, and
\* an Index for a maximal run of digits and '-'; it skips whitespace, and on
\* any other character it fails with a LexerException and returns no tokens.
C11_TokenizeEmitsLexemes ==
    "parse" \in done =>
        LET want == LexemesOf(source)
        IN  /\ tokens.ok = want.ok
            /\ tokens.tokens = want.tokens
            /\ ~tokens.ok => tokens.err = "LexerException"

\* an identifier that holds a ']' was scanned as one token
C11_Witness ==
    /\ "parse" \in done
    /\ tokens.ok
    /\ \E i \in 1..Len(tokens.tokens) :
          /\ tokens.tokens[i].type = "identifier"
          /\ \E j \in 1..Len(tokens.tokens[i].value) :
                tokens.tokens[i].value[j] = "]"
    /\ \E i \in 1..Len(tokens.tokens) : tokens.tokens[i].type = "index"

\* C12: whitespace inserted before the first token, after the last token or
\* between two tokens of a source that tokenizes changes nothing: the padded
\* source tokenizes to the same kinds and texts.
C12_WhitespaceIgnored ==
    (inserted > 0 /\ tokens # NoTokens) => tokens = plain

\* the padded source holds exactly the inserted whitespace, some of it
\* between two tokens, and was tokenized again
C12_Witness ==
    /\ inserted = MaxInsertions
    /\ tokens # NoTokens
    /\ Len(tokens.tokens) >= 2
    /\ Cardinality({i \in 1..Len(source) : source[i] \in Whitespace}) = inserted
    /\ \E i \in 2..(Len(source) - 1) :
          /\ source[i] \in Whitespace
          /\ source[i - 1] \notin Whitespace
          /\ source[i + 1] \notin Whitespace
    /\ \E i \in 1..Len(tokens.tokens) : tokens.tokens[i].type = "identifier"

\* C18: tokenize terminates: an iteration of the scan loop fails or moves
\* the position forward by at least one character, every Identifier and
\* Index token has a non-empty text, the position never passes the end of
\* the source, and the call ends.
C18_TokenizeTerminates ==
    /\ [](scan_idx <= Len(source))
    /\ [](\A i \in 1..Len(scanned) :
            scanned[i].type \in {"identifier", "index"} =>
                scanned[i].value # <<>>)
    /\ [][Scanning => (scan_idx' > scan_idx \/ ~tokens'.ok)]_vars
    /\ <>(tokens # NoTokens)

\* a scan that emitted an Identifier and an Index token came to its end
C18_Witness ==
    /\ "tokenize" \in done
    /\ tokens.ok
    /\ scan_idx = Len(source)
    /\ \E i \in 1..Len(scanned) : scanned[i].type = "identifier"
    /\ \E i \in 1..Len(scanned) :
          scanned[i].type = "index" /\ Len(scanned[i].value) > 1

-----------------------------------------------------------------------------
(* The well-formed interchange records (spec, Data model), stated on their  *)
(* own                                                                      *)

\* the children the record gives (the key may be absent)
GivenChildren(d) == IF d.has_children THEN d.children ELSE <<>>

RECURSIVE IsIllFormed(_)
IsIllFormed(d) ==
    LET children == GivenChildren(d)
        n == Len(children)
    IN  \/ d.type \notin {"root", "identifier", "index", "idx_op", "mmap_op",
                          "sub_op", "cmap_op"}
        \/ d.type \in {"root", "identifier", "index"} /\ n > 0
        \/ d.type = "idx_op" /\ (n # 2 \/ children[2].type # "index")
        \/ d.type = "sub_op" /\ (n # 2 \/ children[2].type # "identifier")
        \/ d.type \in {"mmap_op", "cmap_op"} /\ n # 1
        \/ \E i \in 1..n : IsIllFormed(children[i])

\* C13: fromdict fails, returning no node, on every ill-formed record: an
\* unknown type, children on a root, identifier or index, an idx_op or
\* sub_op without exactly two children or with a wrong second child, a
\* mmap_op or cmap_op without exactly one child, at any depth.
C13_RejectsIllFormed ==
    ("fromdict" \in done /\ IsIllFormed(tree)) =>
        (~rebuilt.ok /\ rebuilt.expr = NoTerm)

\* the keys and the values of a mapping, in insertion order
KeysOf(x) == [i \in 1..Len(x.v) |-> x.v[i][1]]
ValuesOf(x) == [i \in 1..Len(x.v) |-> x.v[i][2]]

\* C14 (as claimed): MemberMap fails when the current value is a mapping, a
\* number, a boolean or null, and otherwise yields the elements in order;
\* ChildMap fails when the current value is no mapping, and otherwise yields
\* the mapping's values in insertion order.
C14_SurjectionEval ==
    /\ applied.component.cls = "MemberMap" =>
          /\ applied.x.k \in {"map", "num", "bool", "null"} => ~applied.ok
          /\ applied.x.k \in {"list", "str"} =>
                applied.ok /\ applied.items = ItemsOf(applied.x)
    /\ applied.component.cls = "ChildMap" =>
          /\ applied.x.k # "map" => ~applied.ok
          /\ applied.x.k = "map" =>
                applied.ok /\ applied.items = ValuesOf(applied.x)

\* C14 (amended): MemberMap fails when the current value is a number, a
\* boolean or null; it yields the elements of a sequence and the characters
\* of a string in order, and on a mapping it does not fail: it yields the
\* mapping's keys in insertion order.  ChildMap fails when the current value
\* is no mapping, and otherwise yields the mapping's values in insertion
\* order.
C14_MemberMapIteratesKeys ==
    /\ applied.component.cls = "MemberMap" =>
          /\ applied.x.k \in {"num", "bool", "null"} => ~applied.ok
          /\ applied.x.k \in {"list", "str"} =>
                applied.ok /\ applied.items = ItemsOf(applied.x)
          /\ applied.x.k = "map" =>
                applied.ok /\ applied.items = KeysOf(applied.x)
    /\ applied.component.cls = "ChildMap" =>
          /\ applied.x.k # "map" => ~applied.ok
          /\ applied.x.k = "map" =>
                applied.ok /\ applied.items = ValuesOf(applied.x)

\* C14 witness: MemberMap was applied to {"a": [0, 1], "b": "ab", "c": []}
\* and yielded "a", "b", "c".
C14_Witness ==
    /\ applied.component = PipeMemberMap
    /\ applied.x = SubjectMixedDict
    /\ applied.ok
    /\ applied.items = <<KeyA, KeyB, KeyC>>

-----------------------------------------------------------------------------
(* The structural invariants of an AST (spec, Data model), stated on their  *)
(* own                                                                      *)

IsLeaf(t, type) == t.type = type /\ t.children = <<>>

\* every node has the children its tag demands
RECURSIVE IsWellFormed(_)
IsWellFormed(t) ==
    CASE t.type = "root" -> t.children = <<>> /\ t.value = PyNone
      [] t.type = "idx_op" ->
            /\ Len(t.children) = 2
            /\ IsLeaf(t.children[2], "index")
            /\ t.children[2].value.k = "num"
            /\ IsWellFormed(t.children[1])
      [] t.type = "sub_op" ->
            /\ Len(t.children) = 2
            /\ IsLeaf(t.children[2], "identifier")
            /\ t.children[2].value.k = "str"
            /\ IsWellFormed(t.children[1])
      [] t.type \in {"mmap_op", "cmap_op"} ->
            Len(t.children) = 1 /\ IsWellFormed(t.children[1])
      [] OTHER -> FALSE

\* the node reached from t by taking the first child depth times
RECURSIVE Operand(_, _)
Operand(t, depth) ==
    IF depth = 0 THEN t
    ELSE IF t.children = <<>> THEN NoTerm
    ELSE Operand(t.children[1], depth - 1)

\* the operations a token list writes after its Root token, left to right:
\* the operator each stands for and the text of its argument
RECURSIVE OperationsOf(_)
OperationsOf(toks) ==
    IF Len(toks) >= 3 /\ toks[1].type = "lbrac"
    THEN <<[op |-> IF toks[2].type = "wild" THEN "mmap_op" ELSE "idx_op",
            text |-> toks[2].value]>> \o OperationsOf(Drop(toks, 3))
    ELSE IF Len(toks) >= 2 /\ toks[1].type = "sub_op"
    THEN <<[op |-> IF toks[2].type = "wild" THEN "cmap_op" ELSE "sub_op",
            text |-> toks[2].value]>> \o OperationsOf(Drop(toks, 2))
    ELSE <<>>

\* C15: every AST parse returns is well-formed and left-associative: its
\* left-most descendant is a root, every operator has the children its tag
\* demands, and the k-th operation of the source is the operator at depth
\* (number of operations - k) below the top, the last one outermost.
C15_ParseIsLeftAssociative ==
    ("parse" \in done /\ parsed.ok) =>
        LET ops == OperationsOf(Tail(tokens.tokens))
            n == Len(ops)
        IN  /\ IsWellFormed(parsed.expr)
            /\ Operand(parsed.expr, n) = Root
            /\ \A k \in 1..n :
                  LET node == Operand(parsed.expr, n - k)
                  IN  /\ node.type = ops[k].op
                      /\ node.type = "sub_op" =>
                            node.children[2].value = PyStr(ops[k].text)
                      /\ node.type = "idx_op" =>
                            StrOfInt(node.children[2].value.v) = ops[k].text
                                \/ ~IsCanonicalIndexText(ops[k].text)

\* C15 witness: a source of two operations, an index then a subscription,
\* was parsed: the subscription is the top node and the index its operand.
C15_Witness ==
    /\ "parse" \in done
    /\ parsed.ok
    /\ Len(OperationsOf(Tail(tokens.tokens))) = 2
    /\ parsed.expr.type = "sub_op"
    /\ parsed.expr.children[1].type = "idx_op"
    /\ parsed.expr.children[1].children[1] = Root

-----------------------------------------------------------------------------
(* The compiler's contract (spec, Pipeline compiler), stated on its own     *)

Operators == {"idx_op", "mmap_op", "sub_op", "cmap_op"}

\* the number of operator nodes on the way down to the left-most descendant
RECURSIVE OperatorCount(_)
OperatorCount(t) ==
    IF t.type \in Operators /\ t.children # <<>>
    THEN 1 + OperatorCount(t.children[1])
    ELSE 0

\* the step an operator node compiles to
StepOf(node) ==
    CASE node.type = "idx_op" ->
            [cls |-> "Index", number |-> node.children[2].value.v, key |-> <<>>]
      [] node.type = "sub_op" ->
            [cls |-> "Sub", number |-> 0, key |-> node.children[2].value.v]
      [] node.type = "mmap_op" -> [cls |-> "MemberMap", number |-> 0, key |-> <<>>]
      [] node.type = "cmap_op" -> [cls |-> "ChildMap", number |-> 0, key |-> <<>>]

\* C16: to_pipeline of a root-anchored well-formed AST returns one step per
\* operator node, the innermost operator's first: Index(n) for idx_op with
\* the leaf's number, Sub(key) for sub_op with the leaf's key, MemberMap for
\* mmap_op, ChildMap for cmap_op, the empty pipeline for a bare root; with
\* an operand that is no root and no operator it fails with 'unexpected
\* term'.
C16_CompileFollowsOperators ==
    "compile" \in done =>
        LET n == OperatorCount(query)
        IN  IF IsWellFormed(query)
            THEN /\ compiled.ok
                 /\ Len(compiled.components) = n
                 /\ \A k \in 1..n :
                       compiled.components[k] = StepOf(Operand(query, n - k))
                 /\ self_components = compiled.components
            ELSE /\ Operand(query, n).type \notin Operators \cup {"root"}
                 /\ ~compiled.ok
                 /\ compiled.err = "ASTException: unexpected term"
                 /\ compiled.components = <<>>

\* C16 witness: '@[*].a][-12]' as an AST was compiled to MemberMap, Sub("a]"),
\* Index(-12).
C16_Witness ==
    /\ "compile" \in done
    /\ query = IndexExpr(SubExpr(MemberMapExpr(Root).expr,
                                 Identifier(PyStr(<<"a", "]">>))).expr,
                         Index(PyInt(-12))).expr
    /\ compiled = Compiled(<<PipeMemberMap, PipeSub(<<"a", "]">>),
                             PipeIndex(-12)>>)

\* C17: a step failure is never recovered: when a step fails, at top level
\* or on an element exploded at any depth, the whole call has failed with an
\* EvaluationException that names the failing step and the type of its
\* input, wrapped once per enclosing call, and it returns no value: no
\* partial list, no null in place of the element.
C17_FailureIsNotRecovered ==
    /\ (applied.component # NoPipe /\ ~applied.ok) =>
          /\ Completed
          /\ ~result.ok
          /\ result.value = PyNone
          /\ Len(result.err) >= 1
          /\ result.err[Len(result.err)] =
                [component |-> applied.component.cls,
                 on |-> TypeName(applied.x)]
          /\ \A i \in 1..(Len(result.err) - 1) :
                result.err[i].component \in {"MemberMap", "ChildMap"}
    /\ (Completed /\ Evaluate(self_components, arg) = Failure) => ~result.ok
    /\ (Completed /\ result.ok) => applied.ok \/ applied.component = NoPipe

\* C17 witness: '@[*].a' on [{"a": 1}, 5] has failed on the second element,
\* after the first one's result was collected.
C17_Witness ==
    /\ Completed
    /\ self_components = <<PipeMemberMap, PipeSub(<<"a">>)>>
    /\ arg = SubjectHeterogeneous
    /\ ~result.ok
    /\ result.err = <<[component |-> "MemberMap", on |-> "list"],
                      [component |-> "Sub", on |-> "int"]>>


====
